---- MODULE Spec2Model ----
(***************************************************************************)
(* Model of group_conv.py: identity, inverses, make_multiplication_table   *)
(* and regular_representation.  The four functions are pure; the state     *)
(* machine holds one call: its arguments, which function ran, and what it  *)
(* returned or raised.                                                     *)
(*                                                                         *)
(* NumPy arrays are functions on 0..n-1 (0-indexed, as in the source).     *)
(* Matrix entries are integers, which float64 represents and multiplies    *)
(* exactly; a tolerance is an exact fraction num/den.                      *)
(***************************************************************************)
EXTENDS Integers, Sequences, FiniteSets

VARIABLES table, matrices, tol, pc, ret

vars == <<table, matrices, tol, pc, ret>>

\* Largest n of the n x n tables built from the row pool.
MaxN == 4
\* Largest order of the enumerated group tables.
MaxOrder == 6
\* Largest number of matrices in an enumerated matrix set.
MaxMat == 3

-----------------------------------------------------------------------------
(* Values a call ends with. *)

Return(v) == [exc |-> "", val |-> v]
ValueError(msg) == [exc |-> msg, val |-> <<>>]
NoCall == [exc |-> "", val |-> <<>>]

Returned(r) == r.exc = ""

(* NumPy helpers. *)

\* len(a) / a.shape[0] of an array held as a function on 0..n-1.
Len0(a) == Cardinality(DOMAIN a)

\* np.arange(n)
arange(n) == [j \in 0..(n - 1) |-> j]

\* A 1-indexed sequence as a 0-indexed array.
Array(s) == [k \in 0..(Len(s) - 1) |-> s[k + 1]]

\* np.nonzero of a 1-D boolean array of length n: the true positions, ascending.
nonzero1(mask, n) ==
    Array(SelectSeq([p \in 1..n |-> p - 1], LAMBDA r : mask[r]))

\* np.nonzero of an n x n boolean array: the true (row, column) positions in
\* row-major order, as an array of pairs.
nonzero2(mask, n) ==
    Array(SelectSeq([p \in 1..(n * n) |-> <<(p - 1) \div n, (p - 1) % n>>],
                    LAMBDA rc : mask[rc[1]][rc[2]]))

-----------------------------------------------------------------------------
(* identity(table) *)

\* The mutant: np.all along axis 0, the columns, in place of axis 1.
identity_WrongAxis(t) ==
    LET n == Len0(t)
        cols == [c \in 0..(n - 1) |-> \A r \in 0..(n - 1) : t[r][c] = arange(n)[c]]
        i == nonzero1(cols, n)
    IN  IF Len0(i) # 1
        THEN ValueError("No or multiple identities")
        ELSE Return(i[0])

\* The mutant: the length test accepts several identity rows.
identity_FirstOfMany(t) ==
    LET n == Len0(t)
        rows == [r \in 0..(n - 1) |-> \A j \in 0..(n - 1) : t[r][j] = arange(n)[j]]
        i == nonzero1(rows, n)
    IN  IF Len0(i) = 0
        THEN ValueError("No or multiple identities")
        ELSE Return(i[0])

identity(t) ==
    LET n == Len0(t)
        rows == [r \in 0..(n - 1) |-> \A j \in 0..(n - 1) : t[r][j] = arange(n)[j]]
        i == nonzero1(rows, n)
    IN  IF Len0(i) # 1
        THEN ValueError("No or multiple identities")
        ELSE Return(i[0])

(* inverses(table) *)

\* The mutant: only the number of matches is tested, not their rows.
inverses_CountOnly(t) ==
    LET n == Len0(t)
        id == identity(t)
    IN  IF ~Returned(id) THEN id
        ELSE LET e == id.val
                 nz == nonzero2([r \in 0..(n - 1) |-> [c \in 0..(n - 1) |-> t[r][c] = e]], n)
                 j == [k \in DOMAIN nz |-> nz[k][2]]
             IN  IF Len0(nz) # n
                 THEN ValueError("Every element does not have one inverse")
                 ELSE Return(j)

\* The mutant: the identity is taken to be element 0.
inverses_ZeroIdentity(t) ==
    LET n == Len0(t)
        id == identity(t)
    IN  IF ~Returned(id) THEN id
        ELSE LET e == 0
                 nz == nonzero2([r \in 0..(n - 1) |-> [c \in 0..(n - 1) |-> t[r][c] = e]], n)
                 i == [k \in DOMAIN nz |-> nz[k][1]]
                 j == [k \in DOMAIN nz |-> nz[k][2]]
             IN  IF (Len0(i) # n) \/ ~(\A k \in 0..(n - 1) : i[k] = arange(n)[k])
                 THEN ValueError("Every element does not have one inverse")
                 ELSE Return(j)

\* The mutant: the row indices are returned instead of the column indices.
inverses_Rows(t) ==
    LET n == Len0(t)
        id == identity(t)
    IN  IF ~Returned(id) THEN id
        ELSE LET e == id.val
                 nz == nonzero2([r \in 0..(n - 1) |-> [c \in 0..(n - 1) |-> t[r][c] = e]], n)
                 i == [k \in DOMAIN nz |-> nz[k][1]]
             IN  IF (Len0(i) # n) \/ ~(\A k \in 0..(n - 1) : i[k] = arange(n)[k])
                 THEN ValueError("Every element does not have one inverse")
                 ELSE Return(i)

inverses(t) ==
    LET n == Len0(t)
        id == identity(t)
    IN  IF ~Returned(id) THEN id
        ELSE LET e == id.val
                 nz == nonzero2([r \in 0..(n - 1) |-> [c \in 0..(n - 1) |-> t[r][c] = e]], n)
                 i == [k \in DOMAIN nz |-> nz[k][1]]
                 j == [k \in DOMAIN nz |-> nz[k][2]]
             IN  IF (Len0(i) # n) \/ ~(\A k \in 0..(n - 1) : i[k] = arange(n)[k])
                 THEN ValueError("Every element does not have one inverse")
                 ELSE Return(j)

(* regular_representation(table) *)

\* The mutant: the last two indices of the assignment are swapped.
regular_representation_Swapped(t) ==
    LET n == Len0(t)
        grid == {<<g, h>> : g \in 0..(n - 1), h \in 0..(n - 1)}
        gh == t
    IN  Return([a \in 0..(n - 1) |-> [b \in 0..(n - 1) |-> [c \in 0..(n - 1) |->
            IF \E p \in grid : a = p[1] /\ b = p[2] /\ c = gh[p[1]][p[2]]
            THEN 1 ELSE 0]]])

\* The mutant: the transposed table is used, gh = h * g.
regular_representation_RightMul(t) ==
    LET n == Len0(t)
        grid == {<<g, h>> : g \in 0..(n - 1), h \in 0..(n - 1)}
        gh == [g \in 0..(n - 1) |-> [h \in 0..(n - 1) |-> t[h][g]]]
    IN  Return([a \in 0..(n - 1) |-> [b \in 0..(n - 1) |-> [c \in 0..(n - 1) |->
            IF \E p \in grid : a = p[1] /\ b = gh[p[1]][p[2]] /\ c = p[2]
            THEN 1 ELSE 0]]])

\* reg_rep starts as zeros and every grid position (g, h) writes a 1 at
\* [g, gh[g, h], h]: a cell is 1 exactly when some position wrote it.
regular_representation(t) ==
    LET n == Len0(t)
        grid == {<<g, h>> : g \in 0..(n - 1), h \in 0..(n - 1)}
        gh == t
    IN  Return([a \in 0..(n - 1) |-> [b \in 0..(n - 1) |-> [c \in 0..(n - 1) |->
            IF \E p \in grid : a = p[1] /\ b = gh[p[1]][p[2]] /\ c = p[2]
            THEN 1 ELSE 0]]])

-----------------------------------------------------------------------------
(* Inputs: tables. *)

\* Every n x n table with entries in 0..n-1.
Tables(n) == [0..(n - 1) -> [0..(n - 1) -> 0..(n - 1)]]

\* The sizes at which every table is enumerated (4^16 tables have size 4).
ExhaustiveSizes == 0..3

\* Larger tables are built from these rows: [0..n-1], its cyclic shifts, and
\* the constant rows.
RowPool(n) ==
    {arange(n)}
        \cup {[j \in 0..(n - 1) |-> (j + k) % n] : k \in 1..(n - 1)}
        \cup {[j \in 0..(n - 1) |-> c] : c \in 0..(n - 1)}

NoMatrices == [shape |-> <<0, 0, 0>>, data |-> <<>>]
NoTol == [num |-> 0, den |-> 1]

InitTable ==
    /\ \/ \E n \in ExhaustiveSizes : table \in Tables(n)
       \/ \E n \in 4..MaxN : table \in [0..(n - 1) -> RowPool(n)]
    /\ matrices = NoMatrices
    /\ tol = NoTol
    /\ pc = "table"
    /\ ret = NoCall

(* The calls. *)

Identity ==
    /\ pc = "table"
    /\ ret' = identity(table)
    /\ pc' = "identity"
    /\ UNCHANGED <<table, matrices, tol>>

Inverses ==
    /\ pc = "table"
    /\ ret' = inverses(table)
    /\ pc' = "inverses"
    /\ UNCHANGED <<table, matrices, tol>>

RegularRepresentation ==
    /\ pc = "table"
    /\ ret' = regular_representation(table)
    /\ pc' = "regular_representation"
    /\ UNCHANGED <<table, matrices, tol>>

NextTable == Identity \/ Inverses \/ RegularRepresentation

SpecTable == InitTable /\ [][NextTable]_vars

-----------------------------------------------------------------------------
(* Inputs: group tables.  Every group of order at most 7 is cyclic, a      *)
(* product of two cyclic groups or dihedral, so the relabelings of these   *)
(* by every permutation of 0..n-1 are all the group tables of that order.  *)

\* Z_n: table[i, j] = (i + j) mod n.
CyclicTable(n) == [i \in 0..(n - 1) |-> [j \in 0..(n - 1) |-> (i + j) % n]]

\* Z_a x Z_b, element (x, y) at index x * b + y.
ProductTable(a, b) ==
    [i \in 0..(a * b - 1) |-> [j \in 0..(a * b - 1) |->
        (((i \div b) + (j \div b)) % a) * b + (((i % b) + (j % b)) % b)]]

\* The dihedral group of order 2m, element r^k s^f at index k + m * f, with
\* s r = r^-1 s.
DihedralTable(m) ==
    [i \in 0..(2 * m - 1) |-> [j \in 0..(2 * m - 1) |->
        LET k1 == i % m
            f1 == i \div m
            k2 == j % m
            f2 == j \div m
        IN  ((IF f1 = 0 THEN k1 + k2 ELSE k1 + m - k2) % m) + m * ((f1 + f2) % 2)]]

BaseGroups(n) ==
    {CyclicTable(n)}
        \cup {ProductTable(a, n \div a) : a \in {x \in 2..(n - 1) : n % x = 0}}
        \cup (IF n % 2 = 0 /\ n >= 4 THEN {DihedralTable(n \div 2)} ELSE {})

Perms(n) ==
    {f \in [0..(n - 1) -> 0..(n - 1)] :
        \A a, b \in 0..(n - 1) : f[a] = f[b] => a = b}

\* The table of the same group with element a renamed s[a].
Relabel(T, s) ==
    LET n == Len0(T)
        sinv == [y \in 0..(n - 1) |-> CHOOSE x \in 0..(n - 1) : s[x] = y]
    IN  [a \in 0..(n - 1) |-> [b \in 0..(n - 1) |-> s[T[sinv[a]][sinv[b]]]]]

\* A valid group multiplication table: every row and column a permutation of
\* 0..n-1, associative, with an identity.
IsGroupTable(T) ==
    LET n == Len0(T)
        I == 0..(n - 1)
    IN  /\ n >= 1
        /\ \A r \in I : DOMAIN T[r] = I
        /\ \A r \in I : {T[r][c] : c \in I} = I
        /\ \A c \in I : {T[r][c] : r \in I} = I
        /\ \A a, b, c \in I : T[T[a][b]][c] = T[a][T[b][c]]
        /\ \E e \in I : \A a \in I : T[e][a] = a /\ T[a][e] = a

InitGroup ==
    /\ \E n \in 1..MaxOrder : \E T \in BaseGroups(n) : \E s \in Perms(n) :
           table = Relabel(T, s)
    /\ matrices = NoMatrices
    /\ tol = NoTol
    /\ pc = "table"
    /\ ret = NoCall

SpecGroup == InitGroup /\ [][NextTable]_vars

-----------------------------------------------------------------------------
(* make_multiplication_table(matrices, tol) *)

AssertionError == [exc |-> "AssertionError", val |-> <<>>]

Abs(x) == IF x < 0 THEN -x ELSE x

\* The mutant: the comparison with the tolerance is not strict.
within_NotStrict(x, tl) == Abs(x) * tl.den <= tl.num

\* np.abs(x) < tol, for an integer x and tol = num / den.
within(x, tl) == Abs(x) * tl.den < tl.num

RECURSIVE dot(_, _, _, _, _)
\* sum over j < d of A[i, j] * B[j, k]
dot(A, B, i, k, d) ==
    IF d = 0 THEN 0 ELSE dot(A, B, i, k, d - 1) + A[i][d - 1] * B[d - 1][k]

\* np.einsum('nij,mjk->nmik', matrices, matrices): [a, b] holds m[a] @ m[b].
einsum(m, n, d) ==
    [a \in 0..(n - 1) |-> [b \in 0..(n - 1) |->
        [i \in 0..(d - 1) |-> [k \in 0..(d - 1) |-> dot(m[a], m[b], i, k, d)]]]]

\* np.nonzero of an n x n x n boolean array: the true (k, i, j) positions in
\* row-major order, as an array of triples.
nonzero3(mask, n) ==
    Array(SelectSeq([p \in 1..(n * n * n) |->
                        <<(p - 1) \div (n * n), ((p - 1) \div n) % n, (p - 1) % n>>],
                    LAMBDA kij : mask[kij[1]][kij[2]][kij[3]]))

\* The mutant: the table starts as ones.
zeros_Ones(n) == [i \in 0..(n - 1) |-> [j \in 0..(n - 1) |-> 1]]

\* np.zeros([n, n], dtype=np.int32)
zeros(n) == [i \in 0..(n - 1) |-> [j \in 0..(n - 1) |-> 0]]

RECURSIVE scatter_FirstWins(_, _, _)
\* The mutant: the writes run from the last triple to the first.
scatter_FirstWins(tbl, indices, len) ==
    IF len = 0 THEN tbl
    ELSE LET w == indices[len - 1]
             rest == scatter_FirstWins(tbl, indices, len - 1)
             firstHere == \A p \in 0..(len - 2) :
                              ~(indices[p][2] = w[2] /\ indices[p][3] = w[3])
         IN  IF firstHere THEN [rest EXCEPT ![w[2]][w[3]] = w[1]] ELSE rest

RECURSIVE scatter(_, _, _)
\* table[indices[1], indices[2]] = indices[0]: the first len triples written in
\* order, a later write to the same cell replacing an earlier one.
scatter(tbl, indices, len) ==
    IF len = 0 THEN tbl
    ELSE LET w == indices[len - 1]
         IN  [scatter(tbl, indices, len - 1) EXCEPT ![w[2]][w[3]] = w[1]]

make_multiplication_table(mats, tl) ==
    LET n == mats.shape[1]
        d == mats.shape[2]
        d2 == mats.shape[3]
    IN  IF d # d2 THEN AssertionError
        ELSE LET m == mats.data
                 mtables == einsum(m, n, d)
                 result == [k \in 0..(n - 1) |-> [a \in 0..(n - 1) |-> [b \in 0..(n - 1) |->
                               [i \in 0..(d - 1) |-> [j \in 0..(d - 1) |->
                                   mtables[a][b][i][j] - m[k][i][j]]]]]]
                 mask == [k \in 0..(n - 1) |-> [a \in 0..(n - 1) |-> [b \in 0..(n - 1) |->
                             \A i \in 0..(d - 1) : \A j \in 0..(d - 1) :
                                 within(result[k][a][b][i][j], tl)]]]
                 indices == nonzero3(mask, n)
             IN  Return(scatter(zeros(n), indices, Len0(indices)))

-----------------------------------------------------------------------------
(* Inputs: matrix sets. *)

\* tol's default, 1e-08
DefaultTol == [num |-> 1, den |-> 100000000]
\* A tolerance equal to the smallest difference of two integer entries; on
\* integer matrices it differs from the default only when that difference is
\* met exactly.
UnitTol == [num |-> 1, den |-> 1]
\* A tolerance looser than that difference.
LooseTol == [num |-> 3, den |-> 2]

Tols == {DefaultTol, UnitTol, LooseTol}

Entries == {0, 1}
Dims == {1, 2}

\* Every d x d2 matrix with entries in Entries.
Pool(d, d2) == [0..(d - 1) -> [0..(d2 - 1) -> Entries]]

\* The array of shape [n, d, d2] holding the matrices a[0], ..., a[n - 1].
ndarray(n, d, d2, a) == [shape |-> <<n, d, d2>>, data |-> a]

\* The rotation by q quarter turns, [[cos, -sin], [sin, cos]].
Rotation(q) ==
    LET cos == <<1, 0, -1, 0>>
        sin == <<0, 1, 0, -1>>
    IN  [i \in 0..1 |-> [j \in 0..1 |->
            IF i = j THEN cos[q + 1] ELSE IF i = 0 THEN -sin[q + 1] ELSE sin[q + 1]]]

\* The rotations by 0, 90, 180 and 270 degrees, in that order.
Rotations == [q \in 0..3 |-> Rotation(q)]

InitMat ==
    /\ \/ /\ \E n \in 0..MaxMat, d \in Dims, d2 \in Dims :
                 \E a \in [0..(n - 1) -> Pool(d, d2)] : matrices = ndarray(n, d, d2, a)
          /\ tol \in {DefaultTol, LooseTol}
       \/ /\ \E n \in 1..Len0(Rotations) :
                 \E a \in [0..(n - 1) -> {Rotations[q] : q \in DOMAIN Rotations}] :
                     matrices = ndarray(n, 2, 2, a)
          /\ tol \in Tols
    /\ table = <<>>
    /\ pc = "matrices"
    /\ ret = NoCall

MakeMultiplicationTable ==
    /\ pc = "matrices"
    /\ ret' = make_multiplication_table(matrices, tol)
    /\ pc' = "make_multiplication_table"
    /\ UNCHANGED <<table, matrices, tol>>

NextMat == MakeMultiplicationTable

SpecMat == InitMat /\ [][NextMat]_vars

-----------------------------------------------------------------------------
(* The properties. *)

N == Len0(table)
Idx == 0..(N - 1)

\* The rows equal to [0, 1, ..., n-1].
IdentityRows == {r \in Idx : \A j \in Idx : table[r][j] = j}

\* How often row r holds the value e.
CountIn(r, e) == Cardinality({c \in Idx : table[r][c] = e})

Commutative == \A a, b \in Idx : table[a][b] = table[b][a]

NoIdentityMsg == "No or multiple identities"
NoInverseMsg == "Every element does not have one inverse"

\* C1: identity(table) returns i exactly when row i is the only row equal to
\* [0..n-1]; with no such row or several it raises 'No or multiple identities'.
C1_IdentityIffUniqueRow ==
    pc = "identity" =>
        /\ \A i \in Idx : (Returned(ret) /\ ret.val = i) <=> (IdentityRows = {i})
        /\ Cardinality(IdentityRows) # 1 => ret = ValueError(NoIdentityMsg)
        /\ Cardinality(IdentityRows) = 1 => Returned(ret)

\* Two identical identity rows, and identity raised.
C1_Witness ==
    /\ pc = "identity"
    /\ Cardinality(IdentityRows) = 2
    /\ ret = ValueError(NoIdentityMsg)

\* C5: on a table with exactly one identity row e, inverses returns exactly
\* when every row holds e in exactly one column, and otherwise raises 'Every
\* element does not have one inverse'.
C5_InversesIffOnePerRow ==
    (pc = "inverses" /\ Cardinality(IdentityRows) = 1) =>
        LET e == CHOOSE r \in IdentityRows : TRUE
        IN  /\ Returned(ret) <=> (\A r \in Idx : CountIn(r, e) = 1)
            /\ ~Returned(ret) => ret = ValueError(NoInverseMsg)

\* e occurs n times in the table, but twice in one row and never in another.
C5_Witness ==
    /\ pc = "inverses"
    /\ Cardinality(IdentityRows) = 1
    /\ LET e == CHOOSE r \in IdentityRows : TRUE
       IN  /\ Cardinality({rc \in Idx \X Idx : table[rc[1]][rc[2]] = e}) = N
           /\ \E r \in Idx : CountIn(r, e) = 0
           /\ \E r \in Idx : CountIn(r, e) = 2
    /\ ret = ValueError(NoInverseMsg)

\* C2: on a valid group table inverses returns inv of length n with
\* T[i, inv[i]] = identity(T), inv[i] the only such column of row i, and inv
\* a permutation of 0..n-1.
C2_InversesOfGroup ==
    (pc = "inverses" /\ IsGroupTable(table)) =>
        /\ Returned(ret)
        /\ Returned(identity(table))
        /\ LET inv == ret.val
               e == identity(table).val
           IN  /\ DOMAIN inv = Idx
               /\ \A i \in Idx : table[i][inv[i]] = e
               /\ \A i \in Idx : \A c \in Idx : table[i][c] = e => c = inv[i]
               /\ {inv[i] : i \in Idx} = Idx

\* A non-commutative group whose identity is not element 0, with an element
\* that is not its own inverse.
C2_Witness ==
    /\ pc = "inverses"
    /\ IsGroupTable(table)
    /\ ~Commutative
    /\ Returned(ret)
    /\ identity(table).val # 0
    /\ \E i \in Idx : ret.val[i] # i

\* C4: on a valid group table regular_representation returns D of shape
\* n x n x n with D[g][r][h] = 1 exactly when r = T[g, h] and 0 otherwise; each
\* D[g] has exactly one 1 in every row and column, and D[identity(T)] is the
\* identity matrix.
C4_RegularRepresentation ==
    (pc = "regular_representation" /\ IsGroupTable(table)) =>
        /\ Returned(ret)
        /\ LET D == ret.val
           IN  /\ DOMAIN D = Idx
               /\ \A g \in Idx : DOMAIN D[g] = Idx /\ \A r \in Idx : DOMAIN D[g][r] = Idx
               /\ \A g, r, h \in Idx : D[g][r][h] = (IF r = table[g][h] THEN 1 ELSE 0)
               /\ \A g, r \in Idx : Cardinality({h \in Idx : D[g][r][h] = 1}) = 1
               /\ \A g, h \in Idx : Cardinality({r \in Idx : D[g][r][h] = 1}) = 1
               /\ \A r, h \in Idx :
                      D[identity(table).val][r][h] = (IF r = h THEN 1 ELSE 0)

\* The representation of a non-commutative group, with an element whose
\* matrix is not symmetric.
C4_Witness ==
    /\ pc = "regular_representation"
    /\ IsGroupTable(table)
    /\ ~Commutative
    /\ Returned(ret)
    /\ \E g, r, h \in Idx : ret.val[g][r][h] = 1 /\ ret.val[g][h][r] = 0

\* C7: on the cyclic table of order n >= 1 identity returns 0 and inverses
\* returns [(n - i) mod n for i in 0..n-1].
C7_Cyclic ==
    \A n \in 1..MaxOrder :
        table = CyclicTable(n) =>
            /\ pc = "identity" => (Returned(ret) /\ ret.val = 0)
            /\ pc = "inverses" =>
                   (Returned(ret) /\ ret.val = [i \in 0..(n - 1) |-> (n - i) % n])

\* inverses has run on a cyclic table of order at least 5.
C7_Witness ==
    /\ pc = "inverses"
    /\ N >= 5
    /\ table = CyclicTable(N)
    /\ Returned(ret)
    /\ ret.val[2] = N - 2

\* C8: on a valid group table the index identity returns is a right identity
\* too, and inverses gives two-sided inverses: T[i, inv[i]] = e = T[inv[i], i],
\* inv[inv[i]] = i and inv[e] = e.
C8_TwoSided ==
    IsGroupTable(table) =>
        /\ pc = "identity" =>
               (Returned(ret) /\ \A j \in Idx : table[j][ret.val] = j)
        /\ pc = "inverses" =>
               /\ Returned(ret)
               /\ Returned(identity(table))
               /\ LET inv == ret.val
                      e == identity(table).val
                  IN  /\ \A i \in Idx : table[i][inv[i]] = e /\ table[inv[i]][i] = e
                      /\ \A i \in Idx : inv[inv[i]] = i
                      /\ inv[e] = e

\* identity has run on a non-commutative group and returned an element other
\* than 0.
C8_Witness ==
    /\ pc = "identity"
    /\ IsGroupTable(table)
    /\ ~Commutative
    /\ Returned(ret)
    /\ ret.val # 0
    /\ \A j \in Idx : table[j][ret.val] = j

RECURSIVE SumUpTo(_, _)
\* f[0] + ... + f[k - 1]
SumUpTo(f, k) == IF k = 0 THEN 0 ELSE SumUpTo(f, k - 1) + f[k - 1]

\* The product of two d x d matrices.
MatMul(A, B, d) ==
    [r \in 0..(d - 1) |-> [c \in 0..(d - 1) |->
        SumUpTo([x \in 0..(d - 1) |-> A[r][x] * B[x][c]], d)]]

Transpose(A, d) == [r \in 0..(d - 1) |-> [c \in 0..(d - 1) |-> A[c][r]]]

\* C10: on a valid group table D = regular_representation(T) is a
\* homomorphism: D[g] @ D[h] = D[T[g, h]], D[inverses(T)[g]] is the transpose
\* of D[g], and distinct g have distinct D[g].
C10_Homomorphism ==
    (pc = "regular_representation" /\ IsGroupTable(table)) =>
        /\ Returned(ret)
        /\ Returned(inverses(table))
        /\ LET D == ret.val
               inv == inverses(table).val
           IN  /\ \A g, h \in Idx : MatMul(D[g], D[h], N) = D[table[g][h]]
               /\ \A g \in Idx : D[inv[g]] = Transpose(D[g], N)
               /\ \A g, h \in Idx : g # h => D[g] # D[h]

\* Two elements of a non-commutative group that do not commute, and the
\* product of their matrices.
C10_Witness ==
    /\ pc = "regular_representation"
    /\ IsGroupTable(table)
    /\ Returned(ret)
    /\ \E g, h \in Idx :
           /\ table[g][h] # table[h][g]
           /\ MatMul(ret.val[g], ret.val[h], N) = ret.val[table[g][h]]
           /\ MatMul(ret.val[g], ret.val[h], N) # ret.val[table[h][g]]

(* make_multiplication_table *)

NM == matrices.shape[1]
DM == matrices.shape[2]
MIdx == 0..(NM - 1)
Square == matrices.shape[2] = matrices.shape[3]

\* Every entry of matrices[i] @ matrices[j] differs from the same entry of
\* matrices[k] by strictly less than the tolerance.
Matches(i, j, k) ==
    LET P == MatMul(matrices.data[i], matrices.data[j], DM)
    IN  \A a, b \in 0..(DM - 1) :
            LET x == P[a][b] - matrices.data[k][a][b]
            IN  (IF x < 0 THEN -x ELSE x) * tol.den < tol.num

MatchSet(i, j) == {k \in MIdx : Matches(i, j, k)}

Max(S) == CHOOSE x \in S : \A y \in S : y <= x

DistinctMatrices == \A i, j \in MIdx : i # j => matrices.data[i] # matrices.data[j]

\* C3: for distinct square matrices in which every product matches exactly one
\* member, table[i, j] = k exactly when matrices[i] @ matrices[j] matches
\* matrices[k]; the rotations by 0, 90, 180, 270 degrees give (i + j) mod 4.
C3_TableOfClosedSet ==
    pc = "make_multiplication_table" =>
        /\ (Square /\ DistinctMatrices
                /\ \A i, j \in MIdx : Cardinality(MatchSet(i, j)) = 1) =>
               /\ Returned(ret)
               /\ DOMAIN ret.val = MIdx
               /\ \A i \in MIdx : DOMAIN ret.val[i] = MIdx
               /\ \A i, j, k \in MIdx : (ret.val[i][j] = k) <=> Matches(i, j, k)
        /\ (matrices.data = Rotations /\ tol = DefaultTol) =>
               /\ Returned(ret)
               /\ ret.val = [i \in 0..3 |-> [j \in 0..3 |-> (i + j) % 4]]

\* The table of the four rotations in order, under the default tolerance.
C3_Witness ==
    /\ pc = "make_multiplication_table"
    /\ matrices.data = Rotations
    /\ tol = DefaultTol
    /\ DistinctMatrices
    /\ \A i, j \in MIdx : Cardinality(MatchSet(i, j)) = 1
    /\ Returned(ret)
    /\ ret.val[1][3] = 0

\* C6: on square matrices make_multiplication_table returns; a pair whose
\* product matches no member gets 0 and a pair with a unique match gets it.
C6_SilentZero ==
    (pc = "make_multiplication_table" /\ Square) =>
        /\ Returned(ret)
        /\ \A i, j \in MIdx :
               LET ms == MatchSet(i, j)
               IN  /\ ms = {} => ret.val[i][j] = 0
                   /\ \A k \in MIdx : ms = {k} => ret.val[i][j] = k

\* A set that is not closed: one product matches nothing, another matches
\* only a member other than 0.
C6_Witness ==
    /\ pc = "make_multiplication_table"
    /\ Square
    /\ Returned(ret)
    /\ \E i, j \in MIdx : MatchSet(i, j) = {} /\ ret.val[i][j] = 0
    /\ \E i, j \in MIdx : \E k \in MIdx :
           k # 0 /\ MatchSet(i, j) = {k} /\ ret.val[i][j] = k

\* C9: a pair whose product matches several members gets the largest
\* matching index.
C9_LastMatchWins ==
    (pc = "make_multiplication_table" /\ Square) =>
        /\ Returned(ret)
        /\ \A i, j \in MIdx :
               LET ms == MatchSet(i, j)
               IN  Cardinality(ms) > 1 => ret.val[i][j] = Max(ms)

\* Distinct matrices under the loose tolerance: a product matches two members
\* but not the last one.
C9_Witness ==
    /\ pc = "make_multiplication_table"
    /\ Square
    /\ tol = LooseTol
    /\ DistinctMatrices
    /\ Returned(ret)
    /\ \E i, j \in MIdx :
           /\ Cardinality(MatchSet(i, j)) = 2
           /\ Max(MatchSet(i, j)) # NM - 1
           /\ ret.val[i][j] = Max(MatchSet(i, j))

====
